---- MODULE Spec2Model ----
(***************************************************************************)
(* A state-machine model of src/paginator.js (SFC Threads Paginator).       *)
(*                                                                         *)
(* The DOM is the posts table (a sequence of rows, each with a class name   *)
(* and an inline display style), the optional "See all" link and the        *)
(* siblings that precede the table (where the controls widget is put).      *)
(* Time is in milliseconds and kept as differences: the code reads          *)
(* Date.now() only to subtract start or stableSince from it, and a timer    *)
(* is due when its age reaches its delay.                                   *)
(***************************************************************************)
EXTENDS Integers, Sequences, FiniteSets, TLC

VARIABLES
    readyState,     \* document.readyState
    dclFired,       \* DOMContentLoaded was dispatched
    initialized,    \* window.__sfcPaginatorInitialized
    injections,     \* how many times the script body was evaluated
    noopInjections, \* injections that returned at the guard
    initPending,    \* pending invocations of init (setTimeout(init, 0) / listener calls)
    domListeners,   \* DOMContentLoaded listeners registered by the script
    initRuns,       \* how many times init was entered
    hasTable,       \* document.getElementById('posts') is not null
    link,           \* the "See all" link: "none", "plain" or "throws" (click throws)
    rows,           \* class name of each row of the table, in document order
    display,        \* tr.style.display of each row
    siblings,       \* widgets with id sfc-paginator-controls before the table
    widgetGen,      \* createControls invocations so far
    ctl,            \* closure of the latest createControls: current, totalPages, buttons
    blocks,         \* the blocks captured by the page callback
    cbLog,          \* page indexes the callback got during the latest handler
    pc,             \* position of init / runPagination
    mo,             \* the MutationObserver: "none", "observing", "disconnected"
    elapsed,        \* waitForPostsToStabilize: Date.now() - start
    lastCount,      \* waitForPostsToStabilize: lastCount
    quiet,          \* waitForPostsToStabilize: Date.now() - stableSince
    sinceChange,    \* time since the table's count of tr.post last changed, or since start
    pollAge,        \* time since setTimeout(check, 100) was called, or NoTimer
    resolves,       \* calls of resolve()
    disconnects,    \* calls of mo.disconnect()
    scrollAge,      \* time since the scroll timer was set, or NoTimer
    scrolledTo,     \* row scrolled into view (0: none)
    error,          \* an exception left the script
    trace,          \* the orchestrator's events, in order
    unitCount,      \* blocks.length as paginate measured it, or NotMeasured
    lastCall        \* the latest call on the widget: << name, argument >>

vars == << readyState, dclFired, initialized, injections, noopInjections, initPending,
           domListeners, initRuns, hasTable, link, rows, display, siblings, widgetGen,
           ctl, blocks, cbLog, pc, mo, elapsed, lastCount, quiet, sinceChange, pollAge,
           resolves, disconnects, scrollAge, scrolledTo, error, trace, unitCount,
           lastCall >>

(***************************************************************************)
(* Program constants.                                                       *)
(***************************************************************************)
POSTS_PER_PAGE == 10
QuietWindow == 300
DefaultTimeout == 5000
PollPeriod == 100
ScrollDelay == 50

(***************************************************************************)
(* Bounds of the model.                                                     *)
(***************************************************************************)
MaxRows == 12          \* rows of the table in the orchestrator's runs
MaxPagerRows == 25     \* rows of the table when the pager is driven directly
MaxOdd == 1            \* rows whose class is not exactly "post"
MaxInjections == 2     \* evaluations of the script body
MaxTotalPages == 4     \* totalPages handed to createControls directly
MaxCreates == 2        \* createControls invocations when driven directly
TickMs == 100          \* granularity of the clock
MaxLateTicks == 1      \* a timer fires at most this many ticks after it is due

NoTimer == 0 - 1

NotMeasured == 0 - 1

Max(a, b) == IF a >= b THEN a ELSE b
Min(a, b) == IF a <= b THEN a ELSE b

Range(s) == { s[i] : i \in DOMAIN s }

(***************************************************************************)
(* Rows and their classes.                                                  *)
(***************************************************************************)
ClassNames == { "post", "space", "post space", "post-body", "head" }

\* /\bpost\b/.test(className): a hyphen is a word boundary
ReTestPost(cls) == cls \in { "post", "post space", "post-body" }

\* /\bspace\b/.test(className)
ReTestSpace(cls) == cls \in { "space", "post space" }

\* the selector tr.post: the class list holds the token post
SelTrPost(cls) == cls \in { "post", "post space" }

CountTrPost(trs) == Cardinality({ i \in DOMAIN trs : SelTrPost(trs[i]) })

OddRows(trs) == Cardinality({ i \in DOMAIN trs : trs[i] # "post" })

(***************************************************************************)
(* collectBlocks: one block per row whose class matches /\bpost\b/, holding *)
(* the preceding row when that row's class matches /\bspace\b/.  A block is *)
(* a sequence of row positions (1-based).                                   *)
(***************************************************************************)
BlockAt(trs, i) ==
    IF i > 1 /\ ReTestSpace(trs[i - 1]) THEN << i - 1, i >> ELSE << i >>

RECURSIVE collectFrom(_, _)
collectFrom(trs, i) ==
    IF i > Len(trs) THEN << >>
    ELSE IF ReTestPost(trs[i]) THEN << BlockAt(trs, i) >> \o collectFrom(trs, i + 1)
    ELSE collectFrom(trs, i + 1)

collectBlocks(trs) == collectFrom(trs, 1)

(***************************************************************************)
(* showBlocks: blocks are visited in order and every row of a block gets    *)
(* the block's style, so a later block overwrites an earlier one.           *)
(***************************************************************************)
PageStart(pageIndex) == pageIndex * POSTS_PER_PAGE

PageEnd(pageIndex) == PageStart(pageIndex) + POSTS_PER_PAGE

\* i is the block's 0-based index, as in the source
Visible(i, pageIndex) == i >= PageStart(pageIndex) /\ i < PageEnd(pageIndex)

StyleOf(i, pageIndex) == IF Visible(i, pageIndex) THEN "" ELSE "none"

RECURSIVE showFrom(_, _, _, _)
showFrom(bl, disp, pageIndex, k) ==
    IF k > Len(bl) THEN disp
    ELSE showFrom(bl,
                  [ r \in DOMAIN disp |->
                      IF r \in Range(bl[k]) THEN StyleOf(k - 1, pageIndex) ELSE disp[r] ],
                  pageIndex, k + 1)

showBlocks(bl, disp, pageIndex) == showFrom(bl, disp, pageIndex, 1)

\* Math.ceil(blocks.length / POSTS_PER_PAGE)
TotalPagesOf(n) == (n + POSTS_PER_PAGE - 1) \div POSTS_PER_PAGE

(***************************************************************************)
(* createControls and its closure.                                          *)
(***************************************************************************)
NoControls ==
    [ totalPages |-> 0, current |-> 0, prevDisabled |-> FALSE,
      nextDisabled |-> FALSE, indicator |-> << 0, 0 >> ]

\* the state the constructor leaves: prev.disabled = true, next untouched,
\* indicator "Page 1 of totalPages", current = 0
NewControls(tp) ==
    [ totalPages |-> tp, current |-> 0, prevDisabled |-> TRUE,
      nextDisabled |-> FALSE, indicator |-> << 1, tp >> ]

\* an insertion that leaves the existing element in place
InsertKeepingOld(sibs, gen) == sibs \o << gen >>

\* the widget list after removing the element getElementById finds and
\* inserting the new wrapper right before the table
InsertWidget(sibs, gen) ==
    (IF sibs = << >> THEN << >> ELSE Tail(sibs)) \o << gen >>

\* an updateButtons that leaves the indicator's text as it was
updateButtonsStaleIndicator(c) ==
    [ c EXCEPT !.prevDisabled = (c.current <= 0),
               !.nextDisabled = (c.current >= c.totalPages - 1) ]

\* updateButtons, with current already assigned
updateButtons(c) ==
    [ c EXCEPT !.prevDisabled = (c.current <= 0),
               !.nextDisabled = (c.current >= c.totalPages - 1),
               !.indicator = << c.current + 1, c.totalPages >> ]

\* a clamp that forgets the lower bound
ClampUpperOnly(n, tp) == Min(tp - 1, n)

\* Math.max(0, Math.min(totalPages - 1, n))
Clamp(n, tp) == Max(0, Min(tp - 1, n))

setPage(c, n) == updateButtons([ c EXCEPT !.current = Clamp(n, c.totalPages) ])

prevGuard(c) == c.current > 0

nextGuard(c) == c.current < c.totalPages - 1

WidgetExists == siblings # << >>

(***************************************************************************)
(* Groups of variables.                                                     *)
(***************************************************************************)
loaderVars == << readyState, dclFired, initialized, injections, noopInjections,
                 initPending, domListeners, initRuns >>

domVars == << hasTable, link, rows >>

watchVars == << mo, elapsed, lastCount, quiet, sinceChange, pollAge, resolves, disconnects >>

flowVars == << pc, scrollAge, scrolledTo, error, trace, unitCount >>

\* the script was not evaluated yet; fired: DOMContentLoaded was dispatched
NotInjected(rs, fired) ==
    /\ readyState = rs
    /\ dclFired = fired
    /\ initialized = FALSE
    /\ injections = 0
    /\ noopInjections = 0
    /\ initPending = 0
    /\ domListeners = 0
    /\ initRuns = 0

\* the script body was evaluated once in a loaded document: the flag is set
\* and setTimeout(init, 0) is pending
InjectedOnce ==
    /\ readyState = "complete"
    /\ dclFired = TRUE
    /\ initialized = TRUE
    /\ injections = 1
    /\ noopInjections = 0
    /\ initPending = 1
    /\ domListeners = 0
    /\ initRuns = 0

\* the page before init: the table, the link, no widget, no watcher
FreshPage(table, trs, lk, bl) ==
    /\ hasTable = table
    /\ link = lk
    /\ rows = trs
    /\ display = [ r \in DOMAIN trs |-> "" ]
    /\ siblings = << >>
    /\ widgetGen = 0
    /\ ctl = NoControls
    /\ blocks = bl
    /\ cbLog = << >>
    /\ pc = "idle"
    /\ mo = "none"
    /\ elapsed = 0
    /\ lastCount = 0
    /\ quiet = 0
    /\ sinceChange = 0
    /\ pollAge = NoTimer
    /\ resolves = 0
    /\ disconnects = 0
    /\ scrollAge = NoTimer
    /\ scrolledTo = 0
    /\ error = FALSE
    /\ trace = << >>
    /\ unitCount = NotMeasured
    /\ lastCall = << "none", 0 >>

\* a table of n rows, all of class "post"
PlainTable(n) == [ r \in 1..n |-> "post" ]

\* a page callback that groups the rows of the table anew on every call
RederivedBlocks(bl, trs) == collectBlocks(trs)

\* the page callback (page) => showBlocks(blocks, page) closes over the blocks
\* paginate collected; the table is not read again
CapturedBlocks(bl, trs) == bl

(***************************************************************************)
(* The widget's handlers.                                                   *)
(***************************************************************************)
\* the Previous button's click listener; a disabled button dispatches no click
ClickPrev ==
    /\ WidgetExists
    /\ pc # "resume"
    /\ lastCall' = << "prev", 0 >>
    /\ IF ~ctl.prevDisabled /\ prevGuard(ctl)
       THEN /\ ctl' = updateButtons([ ctl EXCEPT !.current = @ - 1 ])
            /\ display' = showBlocks(CapturedBlocks(blocks, rows), display, ctl'.current)
            /\ cbLog' = << ctl'.current >>
       ELSE /\ cbLog' = << >>
            /\ UNCHANGED << ctl, display >>
    /\ UNCHANGED << loaderVars, domVars, watchVars, flowVars, siblings, widgetGen, blocks >>

\* the Next button's click listener
ClickNext ==
    /\ WidgetExists
    /\ pc # "resume"
    /\ lastCall' = << "next", 0 >>
    /\ IF ~ctl.nextDisabled /\ nextGuard(ctl)
       THEN /\ ctl' = updateButtons([ ctl EXCEPT !.current = @ + 1 ])
            /\ display' = showBlocks(CapturedBlocks(blocks, rows), display, ctl'.current)
            /\ cbLog' = << ctl'.current >>
       ELSE /\ cbLog' = << >>
            /\ UNCHANGED << ctl, display >>
    /\ UNCHANGED << loaderVars, domVars, watchVars, flowVars, siblings, widgetGen, blocks >>

(***************************************************************************)
(* createControls driven directly: any totalPages >= 1, any integer handed  *)
(* to setPage, with showBlocks over the table's blocks as the callback.     *)
(***************************************************************************)
CallCreateControls(tp) ==
    /\ widgetGen < MaxCreates
    /\ widgetGen' = widgetGen + 1
    /\ siblings' = InsertWidget(siblings, widgetGen + 1)
    /\ ctl' = NewControls(tp)
    /\ cbLog' = << >>
    /\ lastCall' = << "create", tp >>
    /\ UNCHANGED << loaderVars, domVars, watchVars, flowVars, display, blocks >>

CallSetPage(n) ==
    /\ WidgetExists
    /\ ctl' = setPage(ctl, n)
    /\ display' = showBlocks(blocks, display, ctl'.current)
    /\ cbLog' = << ctl'.current >>
    /\ lastCall' = << "setPage", n >>
    /\ UNCHANGED << loaderVars, domVars, watchVars, flowVars, siblings, widgetGen, blocks >>

InitControls ==
    \E n \in 0..MaxPagerRows :
        /\ NotInjected("complete", TRUE)
        /\ FreshPage(TRUE, PlainTable(n), "none", collectBlocks(PlainTable(n)))

NextControls ==
    \/ \E tp \in 1..MaxTotalPages : CallCreateControls(tp)
    \/ \E n \in (0 - 2)..(MaxTotalPages + 1) : CallSetPage(n)
    \/ ClickPrev
    \/ ClickNext

SpecControls == InitControls /\ [][NextControls]_vars

(***************************************************************************)
(* Tables the host page may hold: rows of class "post" with at most MaxOdd  *)
(* rows of another class.                                                   *)
(***************************************************************************)
RECURSIVE WithOdd(_, _)
WithOdd(n, k) ==
    IF k = 0 THEN { PlainTable(n) }
    ELSE LET S == WithOdd(n, k - 1)
         IN  S \cup { [ t EXCEPT ![i] = c ] : t \in S, i \in 1..n, c \in ClassNames }

Tables(maxLen) == UNION { WithOdd(n, MaxOdd) : n \in 0..maxLen }

(***************************************************************************)
(* paginate(postsTable).                                                    *)
(***************************************************************************)
\* an early return that lets exactly one page of blocks through
SkipBelowPageSize(n) == n = 0 \/ n < POSTS_PER_PAGE

\* the two early returns: no blocks, or no more than one page of them
SkipPagination(n) == n = 0 \/ n <= POSTS_PER_PAGE

\* controls.setPage(totalPages - 1) on the controls createControls returned
JumpToLast(tp) == setPage(NewControls(tp), tp - 1)

paginate ==
    LET bl == collectBlocks(rows)
        tp == TotalPagesOf(Len(bl))
    IN  /\ unitCount' = Len(bl)
        /\ IF SkipPagination(Len(bl))
           THEN /\ trace' = trace \o << "measure" >>
                /\ UNCHANGED << siblings, widgetGen, ctl, blocks, cbLog, display, scrollAge >>
           ELSE /\ blocks' = bl
                /\ widgetGen' = widgetGen + 1
                /\ siblings' = InsertWidget(siblings, widgetGen + 1)
                /\ ctl' = JumpToLast(tp)
                /\ display' = showBlocks(bl, display, ctl'.current)
                /\ cbLog' = << ctl'.current >>
                /\ scrollAge' = 0
                /\ trace' = trace \o << "measure", "widget", "page", "scrollTimer" >>

(***************************************************************************)
(* The pager driven directly: showBlocks for any page of the table's        *)
(* blocks, paginate, and the clicks that follow it.                         *)
(***************************************************************************)
CallShowBlocks(i) ==
    /\ ~WidgetExists
    /\ i < TotalPagesOf(Len(blocks))
    /\ display' = showBlocks(blocks, display, i)
    /\ lastCall' = << "showBlocks", i >>
    /\ UNCHANGED << loaderVars, domVars, watchVars, flowVars, siblings, widgetGen, ctl,
                    blocks, cbLog >>

CallPaginate ==
    /\ trace = << >>
    /\ paginate
    /\ lastCall' = << "paginate", 0 >>
    /\ UNCHANGED << loaderVars, domVars, watchVars, pc, scrolledTo, error >>

InitPager ==
    \E t \in Tables(MaxPagerRows) :
        /\ NotInjected("complete", TRUE)
        /\ FreshPage(TRUE, t, "none", collectBlocks(t))

NextPager ==
    \/ \E i \in 0..TotalPagesOf(MaxPagerRows) : CallShowBlocks(i)
    \/ CallPaginate
    \/ ClickPrev
    \/ ClickNext

SpecPager == InitPager /\ [][NextPager]_vars

(***************************************************************************)
(* The script body: the one-shot guard and the readyState dispatch.         *)
(***************************************************************************)
\* a guard that never sees the flag
NeverInitialized(flag) == FALSE

\* if (window.__sfcPaginatorInitialized) return;
AlreadyInitialized(flag) == flag

Inject ==
    /\ injections < MaxInjections
    /\ pc # "resume"
    /\ injections' = injections + 1
    /\ IF AlreadyInitialized(initialized)
       THEN /\ noopInjections' = noopInjections + 1
            /\ UNCHANGED << initialized, initPending, domListeners >>
       ELSE /\ initialized' = TRUE
            /\ IF readyState \in { "complete", "interactive" }
               THEN /\ initPending' = initPending + 1
                    /\ UNCHANGED domListeners
               ELSE /\ domListeners' = domListeners + 1
                    /\ UNCHANGED initPending
            /\ UNCHANGED noopInjections
    /\ UNCHANGED << readyState, dclFired, initRuns, domVars, display, siblings, widgetGen,
                    ctl, blocks, cbLog, watchVars, flowVars, lastCall >>

(***************************************************************************)
(* waitForPostsToStabilize.                                                 *)
(***************************************************************************)
\* a check() without the timeout branch
CheckQuietOnly(q, e, timeout) == IF q > QuietWindow THEN "quiet" ELSE "poll"

\* the branch check() takes, with q = Date.now() - stableSince and
\* e = Date.now() - start
CheckOutcome(q, e, timeout) ==
    IF q > QuietWindow THEN "quiet"
    ELSE IF e > timeout THEN "timeout"
    ELSE "poll"

\* a check() that calls setTimeout(check, 100) in every branch
PollAlways(o) == TRUE

\* check() calls setTimeout(check, 100) only in its last branch
PollAgain(o) == o = "poll"

\* check() at quiet time q and elapsed time e; evs are the events the caller
\* logged before it
check(q, e, evs) ==
    LET o == CheckOutcome(q, e, DefaultTimeout)
    IN  /\ IF o = "poll"
           THEN /\ mo' = "observing"
                /\ pc' = "waiting"
                /\ trace' = trace \o evs
                /\ UNCHANGED << resolves, disconnects >>
           ELSE /\ mo' = "disconnected"
                /\ disconnects' = disconnects + 1
                /\ resolves' = resolves + 1
                /\ pc' = "resume"
                /\ trace' = trace \o evs \o << "resolve" >>
        /\ pollAge' = IF PollAgain(o) THEN 0 ELSE NoTimer

\* a callback that notices new posts only
CountGrew(nowCount, last) == nowCount > last

\* the observer's callback compares the count of tr.post with lastCount
CountChanged(nowCount, last) == nowCount # last

\* the time since the count of tr.post changed, after a mutation from old to trs
SinceChangeAfter(old, trs) ==
    IF CountTrPost(trs) # CountTrPost(old) THEN 0 ELSE sinceChange

\* the callback, delivered after a mutation of the table that leaves trs
Observe(trs) ==
    IF mo = "observing" /\ CountChanged(CountTrPost(trs), lastCount)
    THEN /\ lastCount' = CountTrPost(trs)
         /\ quiet' = 0
    ELSE UNCHANGED << lastCount, quiet >>

(***************************************************************************)
(* init.                                                                    *)
(***************************************************************************)
\* an init that goes on without looking at what getElementById returned
TableAssumed(table) == FALSE

\* if (!postsTable) return;
NoPostsTable(table) == ~table

\* seeAll.click() outside any try/catch
ActivateUnguarded(lk) == IF lk = "throws" THEN "thrown" ELSE "ok"

\* seeAll.click() inside try/catch: "ok" or "caught"; "thrown" would leave init
ActivateLink(lk) == IF lk = "throws" THEN "caught" ELSE "ok"

\* the rows after the link's handler ran: it may add a post at once
AfterClick(lk) ==
    IF lk = "plain" /\ Len(rows) < MaxRows THEN { rows, Append(rows, "post") }
    ELSE { rows }

\* init; eager: a table without a link is paginated without the wait
initFlow(eager) ==
    /\ initRuns' = initRuns + 1
    /\ IF NoPostsTable(hasTable)
       THEN /\ pc' = "noTable"
            /\ trace' = trace \o << "noTable" >>
            /\ UNCHANGED << rows, display, watchVars, error >>
       ELSE IF link # "none" /\ ActivateLink(link) = "thrown"
       THEN /\ pc' = "crashed"
            /\ error' = TRUE
            /\ trace' = trace \o << "expand" >>
            /\ UNCHANGED << rows, display, watchVars >>
       ELSE IF eager /\ link = "none"
       THEN /\ pc' = "resume"
            /\ UNCHANGED << rows, display, watchVars, error, trace >>
       ELSE /\ \E trs \in AfterClick(link) :
                /\ rows' = trs
                /\ display' = [ r \in DOMAIN trs |-> IF r \in DOMAIN display THEN display[r] ELSE "" ]
                /\ lastCount' = CountTrPost(trs)
            /\ elapsed' = 0
            /\ quiet' = 0
            /\ sinceChange' = 0
            /\ check(0, 0, (IF link # "none" THEN << "expand" >> ELSE << >>) \o << "watchStart" >>)
            /\ UNCHANGED error
    /\ UNCHANGED << initialized, injections, noopInjections, hasTable, link, siblings,
                    widgetGen, ctl, blocks, cbLog, scrollAge, scrolledTo, unitCount,
                    lastCall >>

\* an init that paginates the current posts at once when there is no link
initPaginatesAtOnce == initFlow(TRUE)

\* both branches of init call runPagination, which awaits the watcher
init == initFlow(FALSE)

\* setTimeout(init, 0) fires
TimerInit ==
    /\ initPending > 0
    /\ pc # "resume"
    /\ initPending' = initPending - 1
    /\ init
    /\ UNCHANGED << readyState, dclFired, domListeners >>

\* The script reads document.readyState only when its body is evaluated with
\* the flag unset, so the document's progress is followed until init has run.

\* the document finishes parsing
DocInteractive ==
    /\ readyState = "loading"
    /\ pc = "idle"
    /\ readyState' = "interactive"
    /\ UNCHANGED << dclFired, initialized, injections, noopInjections, initPending,
                    domListeners, initRuns, domVars, display, siblings, widgetGen, ctl,
                    blocks, cbLog, watchVars, flowVars, lastCall >>

\* DOMContentLoaded with no listener of the script
DclPlain ==
    /\ readyState = "interactive"
    /\ ~dclFired
    /\ domListeners = 0
    /\ pc = "idle"
    /\ dclFired' = TRUE
    /\ UNCHANGED << readyState, initialized, injections, noopInjections, initPending,
                    domListeners, initRuns, domVars, display, siblings, widgetGen, ctl,
                    blocks, cbLog, watchVars, flowVars, lastCall >>

\* DOMContentLoaded calls the listener init
DclInit ==
    /\ readyState = "interactive"
    /\ ~dclFired
    /\ domListeners > 0
    /\ pc = "idle"
    /\ dclFired' = TRUE
    /\ domListeners' = 0
    /\ initPending' = initPending + domListeners - 1
    /\ init
    /\ UNCHANGED readyState

\* the load finishes
DocComplete ==
    /\ readyState = "interactive"
    /\ dclFired
    /\ pc = "idle"
    /\ readyState' = "complete"
    /\ UNCHANGED << dclFired, initialized, injections, noopInjections, initPending,
                    domListeners, initRuns, domVars, display, siblings, widgetGen, ctl,
                    blocks, cbLog, watchVars, flowVars, lastCall >>

(***************************************************************************)
(* The host page changes the table: it appends a row to a table of posts,   *)
(* or changes the class of the newest row.                                  *)
(***************************************************************************)
HostAppend(c) ==
    /\ hasTable
    /\ pc # "resume"
    /\ Len(rows) < MaxRows
    /\ OddRows(rows) = 0
    /\ rows' = Append(rows, c)
    /\ display' = Append(display, "")
    /\ Observe(rows')
    /\ sinceChange' = SinceChangeAfter(rows, rows')
    /\ UNCHANGED << loaderVars, hasTable, link, siblings, widgetGen, ctl, blocks, cbLog,
                    mo, elapsed, pollAge, resolves, disconnects, flowVars, lastCall >>

\* the class attribute of the last row changes
HostSetClass(c) ==
    /\ hasTable
    /\ pc # "resume"
    /\ Len(rows) >= 1
    /\ rows[Len(rows)] # c
    /\ rows' = [ rows EXCEPT ![Len(rows)] = c ]
    /\ Observe(rows')
    /\ sinceChange' = SinceChangeAfter(rows, rows')
    /\ UNCHANGED << loaderVars, hasTable, link, display, siblings, widgetGen, ctl, blocks,
                    cbLog, mo, elapsed, pollAge, resolves, disconnects, flowVars, lastCall >>

(***************************************************************************)
(* Timers and the continuation of runPagination.                            *)
(***************************************************************************)
\* setTimeout(check, 100) fires
PollFire ==
    /\ pollAge # NoTimer
    /\ pollAge >= PollPeriod
    /\ pc = "waiting"
    /\ check(quiet, elapsed, << >>)
    /\ UNCHANGED << loaderVars, domVars, display, siblings, widgetGen, ctl, blocks, cbLog,
                    elapsed, lastCount, quiet, sinceChange, scrollAge, scrolledTo, error,
                    unitCount, lastCall >>

\* the await returns: paginate(postsTable); the promise's closure (start,
\* lastCount, stableSince) is unreachable from here on
Resume ==
    /\ pc = "resume"
    /\ pc' = "done"
    /\ paginate
    /\ lastCall' = << "paginate", 0 >>
    /\ elapsed' = 0
    /\ quiet' = 0
    /\ sinceChange' = 0
    /\ lastCount' = 0
    /\ UNCHANGED << loaderVars, domVars, mo, pollAge, resolves, disconnects, scrolledTo,
                    error >>

\* tr.post rows whose display is not none
VisiblePosts == { r \in DOMAIN rows : SelTrPost(rows[r]) /\ display[r] # "none" }

SetMax(S) == CHOOSE x \in S : \A y \in S : y <= x

\* the 50 ms timer of paginate fires
ScrollFire ==
    /\ scrollAge # NoTimer
    /\ scrollAge >= ScrollDelay
    /\ pc # "resume"
    /\ scrollAge' = NoTimer
    /\ IF VisiblePosts # { }
       THEN /\ scrolledTo' = SetMax(VisiblePosts)
            /\ trace' = trace \o << "scroll" >>
       ELSE UNCHANGED << scrolledTo, trace >>
    /\ UNCHANGED << loaderVars, domVars, display, siblings, widgetGen, ctl, blocks, cbLog,
                    watchVars, pc, error, unitCount, lastCall >>

TimerPending == pollAge # NoTimer \/ scrollAge # NoTimer

Overdue(age, delay) == age # NoTimer /\ age >= delay + MaxLateTicks * TickMs

Aged(age) == IF age = NoTimer THEN NoTimer ELSE age + TickMs

\* time passes while a timer is pending
Tick ==
    /\ TimerPending
    /\ pc # "resume"
    /\ ~Overdue(pollAge, PollPeriod)
    /\ ~Overdue(scrollAge, ScrollDelay)
    /\ pollAge' = Aged(pollAge)
    /\ scrollAge' = Aged(scrollAge)
    /\ elapsed' = IF mo = "observing" THEN elapsed + TickMs ELSE elapsed
    /\ quiet' = IF mo = "observing" THEN quiet + TickMs ELSE quiet
    /\ sinceChange' = IF mo = "observing" THEN sinceChange + TickMs ELSE sinceChange
    /\ UNCHANGED << loaderVars, domVars, display, siblings, widgetGen, ctl, blocks, cbLog,
                    mo, lastCount, resolves, disconnects, pc, scrolledTo, error, trace,
                    unitCount, lastCall >>

(***************************************************************************)
(* The page after the script body was evaluated in a loaded document (the   *)
(* userscript runs at document-idle): init, the watcher, paginate, the      *)
(* scroll timer and the user's clicks, while the host page changes the      *)
(* table.                                                                   *)
(***************************************************************************)
PageStates ==
    { << table, lk, n >> \in BOOLEAN \X { "none", "plain", "throws" } \X (0..MaxRows) :
          table \/ (lk = "none" /\ n = 0) }

Init ==
    \E p \in PageStates :
        /\ InjectedOnce
        /\ FreshPage(p[1], PlainTable(p[3]), p[2], << >>)

Next ==
    \/ TimerInit
    \/ \E c \in ClassNames : HostAppend(c)
    \/ \E c \in ClassNames : HostSetClass(c)
    \/ PollFire
    \/ Resume
    \/ ScrollFire
    \/ Tick
    \/ ClickPrev
    \/ ClickNext

Spec == Init /\ [][Next]_vars

(***************************************************************************)
(* The script injected any number of times into a document in any           *)
(* readiness state, over a table the host leaves alone.                     *)
(***************************************************************************)
InitLoader ==
    \E p \in PageStates, rs \in { "loading", "interactive", "complete" }, fired \in BOOLEAN :
        /\ fired = (rs = "complete") \/ rs = "interactive"
        /\ NotInjected(rs, fired)
        /\ FreshPage(p[1], PlainTable(p[3]), p[2], << >>)

NextLoader ==
    \/ Inject
    \/ TimerInit
    \/ DocInteractive
    \/ DclPlain
    \/ DclInit
    \/ DocComplete
    \/ PollFire
    \/ Resume
    \/ ScrollFire
    \/ Tick
    \/ ClickPrev
    \/ ClickNext

SpecLoader == InitLoader /\ [][NextLoader]_vars

(***************************************************************************)
(* Claims about the controls (SpecControls).                                *)
(***************************************************************************)
\* the page the setter is to leave for a request n
ExpectedPage(n, tp) == IF n < 0 THEN 0 ELSE IF n > tp - 1 THEN tp - 1 ELSE n

\* C1: with totalPages >= 1, under any sequence of Previous clicks, Next
\* clicks and setPage(n) calls with any integer n, current stays in
\* [0, totalPages-1]; setPage(n) leaves 0 for n < 0, totalPages-1 for
\* n > totalPages-1 and n otherwise; no call ends in an error.
C1_CurrentPageInRange ==
    WidgetExists =>
        /\ ctl.current \in 0..(ctl.totalPages - 1)
        /\ (lastCall[1] = "setPage" =>
                ctl.current = ExpectedPage(lastCall[2], ctl.totalPages))
        /\ ~error

\* a setPage call above the range, and one below it, on a widget of several pages
C1_Witness ==
    /\ WidgetExists
    /\ ctl.totalPages >= 3
    /\ lastCall[1] = "setPage"
    /\ lastCall[2] > ctl.totalPages - 1
    /\ ctl.current = ctl.totalPages - 1

\* C2: in every state of the widget, from the one right after construction
\* on, Previous is disabled iff current = 0 and Next is disabled iff
\* current = totalPages - 1.
C2_ButtonsMatchPage ==
    WidgetExists =>
        /\ ctl.prevDisabled <=> (ctl.current = 0)
        /\ ctl.nextDisabled <=> (ctl.current = ctl.totalPages - 1)

(***************************************************************************)
(* Claims about the pager (SpecPager).                                      *)
(***************************************************************************)
\* ceil(u / POSTS_PER_PAGE), stated without the code's arithmetic
CeilPages(u) == CHOOSE m \in 0..u : m * POSTS_PER_PAGE >= u /\ (m - 1) * POSTS_PER_PAGE < u

\* unit k (1-based position in blocks) has all its rows shown / hidden
UnitShown(k) == \A r \in Range(blocks[k]) : display[r] = ""

UnitHidden(k) == \A r \in Range(blocks[k]) : display[r] = "none"

\* the 0-based index of unit k lies on page i
OnPage(k, i) == i * POSTS_PER_PAGE <= k - 1 /\ k - 1 < (i + 1) * POSTS_PER_PAGE

\* C3: for U >= 1 units and page index i in [0, totalPages-1], showBlocks(blocks, i)
\* leaves visible exactly the units with i*10 <= index < (i+1)*10 and hides the
\* others: 10 units on every page but the last, U - (totalPages-1)*10 on the last.
C3_ShowBlocksExact ==
    (lastCall[1] = "showBlocks" /\ Len(blocks) >= 1) =>
        LET i == lastCall[2]
            U == Len(blocks)
        IN  /\ \A k \in 1..U : IF OnPage(k, i) THEN UnitShown(k) ELSE UnitHidden(k)
            /\ Cardinality({ k \in 1..U : UnitShown(k) }) =
                   IF i < CeilPages(U) - 1 THEN POSTS_PER_PAGE
                   ELSE U - (CeilPages(U) - 1) * POSTS_PER_PAGE

\* no row of the table carries both the post and the space token
NoDoubleToken == \A r \in DOMAIN rows : ~(ReTestPost(rows[r]) /\ ReTestSpace(rows[r]))

\* C3 on the tables whose blocks share no row
C3_ShowBlocksExactDisjoint == NoDoubleToken => C3_ShowBlocksExact

\* C9: for U > 10, right after paginate returns, current = ceil(U/10) - 1, the
\* indicator reads page ceil(U/10) of ceil(U/10), the units with index >=
\* (ceil(U/10)-1)*10 are visible and the units with a smaller index are hidden.
C9_LastPageAfterPaginate ==
    (lastCall[1] = "paginate" /\ Len(collectBlocks(rows)) > POSTS_PER_PAGE) =>
        LET U == Len(collectBlocks(rows))
            last == CeilPages(U) - 1
        IN  /\ WidgetExists
            /\ blocks = collectBlocks(rows)
            /\ ctl.current = last
            /\ ctl.indicator = << last + 1, last + 1 >>
            /\ \A k \in 1..U :
                   IF k - 1 >= last * POSTS_PER_PAGE THEN UnitShown(k) ELSE UnitHidden(k)

\* C9 on the tables whose blocks share no row
C9_LastPageAfterPaginateDisjoint == NoDoubleToken => C9_LastPageAfterPaginate

(***************************************************************************)
(* Claims about the loader (SpecLoader).                                    *)
(***************************************************************************)
\* C4: however often the script is injected and whatever the readiness state
\* at each injection, init is started at most once; every injection after
\* the first changes no state and schedules nothing.
C4_InitAtMostOnce ==
    /\ [](initRuns + initPending + domListeners <= 1)
    /\ [][(injections >= 1 /\ injections' = injections + 1) =>
              UNCHANGED << readyState, dclFired, initialized, initPending, domListeners,
                           initRuns, domVars, display, siblings, widgetGen, ctl, blocks,
                           cbLog, watchVars, flowVars, lastCall >>]_vars

\* the script was injected again after the flow had finished with a widget
C4_Witness == injections >= 2 /\ initRuns = 1 /\ pc = "done" /\ WidgetExists

(***************************************************************************)
(* Claims about the orchestrator (Spec, SpecLive).                          *)
(***************************************************************************)
Has(ev) == \E i \in DOMAIN trace : trace[i] = ev

Pos(ev) == CHOOSE i \in DOMAIN trace : trace[i] = ev

Once(ev) == Cardinality({ i \in DOMAIN trace : trace[i] = ev }) <= 1

\* b happened only after a
Before(a, b) == Has(b) => (Has(a) /\ Pos(a) < Pos(b))

AllRowsShown == \A r \in DOMAIN display : display[r] = ""

\* C5: the expand attempt (if a link was found) precedes the start of the
\* watcher; the watcher resolves before the grouper measures and before any
\* row's visibility changes or the widget is created; the scroll attempt
\* comes only after the widget was built and the last page applied; the
\* watcher is started whether or not a link existed.
C5_Ordering ==
    /\ \A ev \in Range(trace) : Once(ev)
    /\ (hasTable /\ initRuns >= 1) => Has("watchStart")
    /\ (Has("watchStart") /\ link # "none") => (Has("expand") /\ Pos("expand") < Pos("watchStart"))
    /\ Before("watchStart", "resolve")
    /\ Before("resolve", "measure")
    /\ Before("measure", "widget")
    /\ Before("widget", "page")
    /\ Before("page", "scroll")
    /\ ~Has("resolve") => (~WidgetExists /\ AllRowsShown /\ unitCount = NotMeasured)
    /\ Has("page") <=> WidgetExists
    /\ scrolledTo # 0 => Has("scroll")

\* the whole flow on a table without a link, up to the scroll
C5_Witness == link = "none" /\ Has("scroll") /\ scrolledTo # 0

\* C6: under every interleaving of host mutations, observer callbacks and
\* polls the watcher completes exactly once: the observer is disconnected
\* once, in the step that resolves the promise; afterwards no poll is
\* scheduled and the observer is never active again.
C6_ResolvesOnce ==
    /\ resolves <= 1
    /\ disconnects = resolves
    /\ resolves = 1 => (mo = "disconnected" /\ pollAge = NoTimer)
    /\ mo = "observing" <=> pollAge # NoTimer
    /\ mo = "observing" => (resolves = 0 /\ pc = "waiting")

\* the watcher resolved by its timeout, the quiet window never having passed
C6_Witness ==
    /\ pc = "resume"
    /\ resolves = 1
    /\ quiet <= QuietWindow
    /\ elapsed > DefaultTimeout

\* the watcher on a table without a link, which init starts in the same way
InitWatch ==
    \E n \in 0..MaxRows :
        /\ InjectedOnce
        /\ FreshPage(TRUE, PlainTable(n), "none", << >>)

\* time passes and due timers fire
SpecLive == InitWatch /\ [][Next]_vars /\ WF_vars(Tick) /\ WF_vars(PollFire)

\* C7: once started the watcher always resolves and never rejects, also when
\* the post count keeps changing and when there are no posts; while it has
\* not resolved, the latest poll ran no later than the timeout after start.
C7_AlwaysResolves ==
    /\ [](~error)
    /\ [](pc = "waiting" => elapsed - pollAge <= DefaultTimeout)
    /\ (mo = "observing") ~> (resolves = 1)

\* the count changed within the quiet window right up to the timeout
C7_Witness ==
    /\ pc = "resume"
    /\ quiet <= QuietWindow
    /\ elapsed > DefaultTimeout
    /\ CountTrPost(rows) = 0

\* C8: when the grouper yields U <= 10 units (0 and 10 included) paginate
\* creates no widget, changes no row's display and schedules no scroll; a
\* widget exists after the flow only if U > 10.
C8_SmallTableUntouched ==
    /\ (unitCount # NotMeasured /\ unitCount <= POSTS_PER_PAGE) =>
           /\ ~WidgetExists
           /\ ctl = NoControls
           /\ AllRowsShown
           /\ scrollAge = NoTimer
           /\ ~Has("scrollTimer")
           /\ scrolledTo = 0
    /\ WidgetExists => unitCount > POSTS_PER_PAGE

\* paginate measured exactly one page of units
C8_Witness == pc = "done" /\ unitCount = POSTS_PER_PAGE /\ Len(rows) >= POSTS_PER_PAGE

\* C10: a link whose click throws does not stop init: the watcher is started
\* and, once it resolves, paginate runs on the rows of that moment, with the
\* outcome those rows give with or without a link.
C10_ThrowingLinkContinues ==
    /\ []((link = "throws" /\ initRuns >= 1) =>
              (~error /\ pc \in { "waiting", "resume", "done" } /\ mo # "none"
               /\ Has("expand") /\ Has("watchStart")))
    /\ [][(pc = "resume" /\ pc' = "done") =>
              /\ unitCount' = Len(collectBlocks(rows))
              /\ (siblings' # << >>) <=> (Len(collectBlocks(rows)) > POSTS_PER_PAGE)]_vars

\* the flow paginated a table after the link's click threw
C10_Witness == link = "throws" /\ pc = "done" /\ WidgetExists /\ ~error

(***************************************************************************)
(* Claims about the grouper (SpecPager).                                    *)
(***************************************************************************)
\* the row's class list holds the token post, as the selector tr.post reads it
PostToken(cls) == cls \in { "post", "post space" }

\* the row's class list holds the token space
SpaceToken(cls) == cls \in { "space", "post space" }

\* the positions of the rows carrying the post token
PostRows(trs) == { r \in DOMAIN trs : PostToken(trs[r]) }

\* the last row of a unit
LastOf(u) == u[Len(u)]

\* the units of bl that hold row r
UnitsOf(bl, r) == { k \in DOMAIN bl : r \in Range(bl[k]) }

\* C11: collectBlocks returns one unit per post row in document order (output
\* length = number of post rows); each unit ends with its post row; a spacer
\* row is in a unit iff it is the row right before that unit's post row; rows
\* that are neither post nor spacer, and spacer rows not followed at once by a
\* post row, are in no unit.
C11_GrouperOutput ==
    LET bl == collectBlocks(rows)
    IN  /\ Len(bl) = Cardinality(PostRows(rows))
        /\ \A k \in DOMAIN bl :
               /\ LastOf(bl[k]) \in PostRows(rows)
               /\ Cardinality({ r \in PostRows(rows) : r < LastOf(bl[k]) }) = k - 1
        /\ \A r \in DOMAIN rows :
               /\ SpaceToken(rows[r]) =>
                      \A k \in DOMAIN bl : r \in Range(bl[k]) <=> r = LastOf(bl[k]) - 1
               /\ (~PostToken(rows[r]) /\ ~SpaceToken(rows[r])) => UnitsOf(bl, r) = { }
               /\ (SpaceToken(rows[r]) /\ ~PostToken(rows[r])
                     /\ (r = Len(rows) \/ ~PostToken(rows[r + 1]))) => UnitsOf(bl, r) = { }

\* every class of the table is a single token: none is hyphenated, none
\* carries both tokens
SingleTokens == \A r \in DOMAIN rows : rows[r] \in { "post", "space", "head" }

\* C11 on the tables whose classes are single tokens
C11_GrouperOutputSingleTokens == SingleTokens => C11_GrouperOutput

\* C18: the units collectBlocks returns are pairwise disjoint, also with rows
\* that carry both the post token and the space token: no row is in two
\* units, so no row is shown by one unit and hidden by another on one page.
C18_UnitsDisjoint ==
    LET bl == collectBlocks(rows)
    IN  /\ \A r \in DOMAIN rows : Cardinality(UnitsOf(bl, r)) <= 1
        /\ \A i \in 0..TotalPagesOf(Len(bl)) :
               \A j, k \in DOMAIN bl :
                   (Range(bl[j]) \cap Range(bl[k]) # { }) =>
                       StyleOf(j - 1, i) = StyleOf(k - 1, i)

\* C18 on the tables without a row that carries both tokens
C18_UnitsDisjointNoDoubleToken == NoDoubleToken => C18_UnitsDisjoint

(***************************************************************************)
(* Claims about the widget (SpecControls).                                  *)
(***************************************************************************)
\* C12: after any number of createControls invocations (at least one) exactly
\* one widget with the fixed id is in the document, it is the one the latest
\* invocation built and it is the sibling right before the posts container;
\* no reachable state has more than one widget.
C12_SingleWidget ==
    /\ Len(siblings) <= 1
    /\ widgetGen >= 1 =>
           /\ Len(siblings) = 1
           /\ siblings[Len(siblings)] = widgetGen
           /\ ctl.totalPages = (IF lastCall[1] = "create" THEN lastCall[2] ELSE ctl.totalPages)

\* createControls ran again on a page that had a widget
C12_Witness == widgetGen >= 2 /\ lastCall[1] = "create" /\ siblings = << widgetGen >>

\* C14: a Previous click with current > 0 lowers current by exactly 1 and a
\* Next click with current < totalPages - 1 raises it by exactly 1; each such
\* change, and every setPage call, sets the indicator to current+1 of
\* totalPages and calls the page callback exactly once with the new current.
\* A Previous click at 0 or a Next click at totalPages - 1 leaves current,
\* the indicator, the buttons and every row's display as they were and does
\* not call the callback.
C14_ClicksStepByOne ==
    [][ /\ (lastCall'[1] = "prev" /\ ctl.current > 0) =>
               /\ ctl'.current = ctl.current - 1
               /\ ctl'.indicator = << ctl'.current + 1, ctl.totalPages >>
               /\ ctl'.totalPages = ctl.totalPages
               /\ cbLog' = << ctl'.current >>
        /\ (lastCall'[1] = "next" /\ ctl.current < ctl.totalPages - 1) =>
               /\ ctl'.current = ctl.current + 1
               /\ ctl'.indicator = << ctl'.current + 1, ctl.totalPages >>
               /\ ctl'.totalPages = ctl.totalPages
               /\ cbLog' = << ctl'.current >>
        /\ lastCall'[1] = "setPage" =>
               /\ ctl'.indicator = << ctl'.current + 1, ctl.totalPages >>
               /\ ctl'.totalPages = ctl.totalPages
               /\ cbLog' = << ctl'.current >>
        /\ (lastCall'[1] = "prev" /\ ctl.current = 0) =>
               (UNCHANGED << ctl, display >> /\ cbLog' = << >>)
        /\ (lastCall'[1] = "next" /\ ctl.current = ctl.totalPages - 1) =>
               (UNCHANGED << ctl, display >> /\ cbLog' = << >>) ]_vars

\* a Previous click moved a widget of three or more pages off its last page
C14_Witness ==
    /\ lastCall[1] = "prev"
    /\ ctl.totalPages >= 3
    /\ ctl.current = ctl.totalPages - 2
    /\ cbLog = << ctl.current >>
    /\ ctl.indicator = << ctl.current + 1, ctl.totalPages >>

(***************************************************************************)
(* Claims about the absent container (SpecLoader).                          *)
(***************************************************************************)
\* C13: when the posts container is absent as init runs, init ends at once:
\* no expand link is looked for or activated, the watcher is never started,
\* no widget is made, no row's display changes, no scroll is scheduled and no
\* error leaves the script.
C13_AbsentContainerStops ==
    (~hasTable /\ initRuns >= 1) =>
        /\ pc = "noTable"
        /\ trace = << "noTable" >>
        /\ mo = "none"
        /\ pollAge = NoTimer
        /\ resolves = 0
        /\ ~WidgetExists
        /\ ctl = NoControls
        /\ AllRowsShown
        /\ unitCount = NotMeasured
        /\ scrollAge = NoTimer
        /\ scrolledTo = 0
        /\ ~error

\* init ran on a loaded page that has no posts container
C13_Witness == ~hasTable /\ initRuns = 1 /\ initPending = 0 /\ readyState = "complete"

(***************************************************************************)
(* Claims about the page after pagination (Spec, SpecPager).                *)
(***************************************************************************)
\* C16: the post collection is derived once, when the watcher has resolved,
\* and never again: post rows the host adds after pagination are in no unit,
\* no later click or setPage call changes their display, and totalPages and
\* the widget are not updated for them.
C16_CollectionNeverRederived ==
    /\ [](unitCount # NotMeasured => (pc = "done" /\ resolves = 1 /\ Once("measure")))
    /\ [](WidgetExists =>
              /\ Len(blocks) = unitCount
              /\ ctl.totalPages = TotalPagesOf(unitCount)
              /\ siblings = << 1 >>
              /\ \A r \in DOMAIN rows : UnitsOf(blocks, r) = { } => display[r] = "")
    /\ [][pc = "done" =>
              /\ UNCHANGED << blocks, unitCount, siblings, widgetGen >>
              /\ ctl'.totalPages = ctl.totalPages
              /\ \A r \in DOMAIN rows' :
                     UnitsOf(blocks, r) = { } =>
                         display'[r] = (IF r \in DOMAIN rows THEN display[r] ELSE "")]_vars

\* a click changed the page after the host had added a post row to the
\* paginated table
C16_Witness ==
    /\ pc = "done"
    /\ WidgetExists
    /\ lastCall[1] \in { "prev", "next" }
    /\ cbLog # << >>
    /\ Len(collectBlocks(rows)) > Len(blocks)
    /\ \E r \in DOMAIN rows :
           SelTrPost(rows[r]) /\ UnitsOf(blocks, r) = { } /\ display[r] = ""

\* C15: when the watcher resolves before the timeout has elapsed, the count of
\* post rows has not changed for more than 300 ms: every change of the count
\* the host makes before the resolution resets the quiet window, so the
\* quiet path is never taken less than 300 ms after a change of the count,
\* nor less than 300 ms after the start.
C15_QuietWindowRespected ==
    /\ [](mo = "observing" =>
              (lastCount = CountTrPost(rows) /\ quiet = sinceChange /\ sinceChange <= elapsed))
    /\ []((pc = "resume" /\ (elapsed <= DefaultTimeout \/ quiet > QuietWindow)) =>
              (quiet > QuietWindow /\ sinceChange > QuietWindow /\ elapsed > QuietWindow))
    /\ [][(mo = "observing" /\ CountTrPost(rows') # CountTrPost(rows)) =>
              (quiet' = 0 /\ lastCount' = CountTrPost(rows') /\ mo' = "observing")]_vars

\* the watcher resolved on the quiet path after the host had changed the count
C15_Witness ==
    /\ pc = "resume"
    /\ elapsed <= DefaultTimeout
    /\ sinceChange < elapsed
    /\ sinceChange > QuietWindow

\* C17: in every state after paginate built the widget, under any clicks and
\* setPage calls, the visible units are exactly the units with index in
\* [current*10, current*10 + 10): the units of one page, the page the
\* indicator names, and never none.
C17_VisibleSetIsCurrentPage ==
    WidgetExists =>
        /\ \A k \in DOMAIN blocks : UnitShown(k) <=> OnPage(k, ctl.current)
        /\ ctl.indicator = << ctl.current + 1, ctl.totalPages >>
        /\ \E k \in DOMAIN blocks : OnPage(k, ctl.current)

\* C17 on the tables whose blocks share no row
C17_VisibleSetNoDoubleToken == NoDoubleToken => C17_VisibleSetIsCurrentPage

====
